---- MODULE Spec2Model ----
(***************************************************************************)
(* Model of imagetopdf.py: a directory walker (walk_and_process) that      *)
(* calls process_folder on every directory of a tree.  process_folder      *)
(* lists the folder's images, assembles them into an Intermediate PDF,     *)
(* runs the OCR command into a temporary file and promotes that file to    *)
(* the Final PDF <folder-name>.pdf.                                        *)
(*                                                                         *)
(* The state is the file system (per folder: its listing, its Final PDF,   *)
(* its Intermediate PDF; the system temporary directory), the program's    *)
(* arguments, and the position of the walker and of process_folder.        *)
(* Every statement of process_folder that touches the file system is one   *)
(* action, so that the states between two statements are reachable states. *)
(***************************************************************************)
EXTENDS Naturals, Sequences, FiniteSets

(***************************************************************************)
(* Bounds of the model.                                                    *)
(***************************************************************************)
\* number of directories of the tree, the root included
NumDirs == 4
\* number of failures (exceptions, non-zero exits) injected in one execution
MaxFaults == 1

(***************************************************************************)
(* The directory tree.  Directories are 1..NumDirs, 1 is the root and the  *)
(* parent of d > 1 is d \div 2: with four directories the tree is          *)
(* root{2{4}, 3}.                                                          *)
(***************************************************************************)
Root == 1
Dirs == 1..NumDirs
Children(d) == {c \in Dirs : c > 1 /\ c \div 2 = d}

\* line 14
IMAGE_EXT == {".jpg", ".jpeg", ".png", ".tif", ".tiff", ".bmp"}

(***************************************************************************)
(* The listings a folder may hold at start: the suffixes of its regular    *)
(* files other than the PDFs the program writes, in sorted name order.     *)
(* One listing has no image, the other has two images and a text file.     *)
(***************************************************************************)
Listings == { <<".txt">>, <<".JPG", ".png", ".txt">> }

\* str.lower() on the suffixes that occur
Lower(s) == IF s = ".JPG" THEN ".jpg" ELSE s

\* contents of a file
ABSENT  == "absent"    \* the path does not exist
OLD     == "old"       \* a Final PDF that was there before the program ran
INVALID == "invalid"   \* empty or partly written: not a valid PDF
NOOCR   == "noocr"     \* a complete PDF of the page images, no OCR layer

Runs == {"first", "second"}
\* the complete output of an OCR process that exited zero, in the given run
OcrOutput(r) == IF r = "first" THEN "ocr_first" ELSE "ocr_second"

VARIABLES
    listing,       \* [Dirs -> Listings]: the folder's other regular files
    final,         \* [Dirs -> content]: <folder-name>.pdf
    tmp_pdf,       \* [Dirs -> content]: <folder-name>_noocr_tmp.pdf
    tempdir,       \* files of the system temporary directory:
                   \*   [run, folder, content], named by the call that made them
    overwrite,     \* --overwrite
    include_root,  \* --include-root
    root_is_dir,   \* whether the root argument names an existing directory
    run,           \* which invocation of the program this is
    pc,            \* the statement the program is at
    stack,         \* os.walk: directories still to yield, next one first
    folder,        \* the walker's loop variable / process_folder's argument
    images,        \* process_folder's local: result of find_image_files
    retval,        \* what process_folder returns once its finally has run
    ok,            \* the walker's local ok
    processed,     \* the walker's counter
    faults,        \* failures injected so far
    \* history, read by the properties only
    final0,        \* final at the start of this invocation
    calls,         \* [Dirs -> Nat]: calls of process_folder in this invocation
    outcome,       \* [Dirs -> terminal state of the last call]
    ocr_exit,      \* [Dirs -> exit of the OCR process in this invocation]
    visited,       \* directories process_folder was called on, in order
    reported       \* [Runs -> count logged by the final summary, or NumDirs+1]

fs      == <<listing, final, tmp_pdf, tempdir>>
args    == <<overwrite, include_root, root_is_dir>>
walker  == <<stack, folder, ok, processed>>
history == <<final0, calls, outcome, ocr_exit, visited, reported>>
vars    == <<fs, args, run, pc, walker, images, retval, faults, history>>

NotReported == NumDirs + 1

(***************************************************************************)
(* Helpers                                                                 *)
(***************************************************************************)
\* the ascending sequence of a set of directories.  os.walk takes the
\* subdirectories in the order scandir returns them, which the program does
\* not choose; the model takes one fixed order.
RECURSIVE Sorted(_)
Sorted(S) ==
    IF S = {} THEN <<>>
    ELSE LET m == CHOOSE x \in S : \A y \in S : x <= y
         IN  <<m>> \o Sorted(S \ {m})

\* lines 16-18: the entries whose suffix is an image suffix, in name order
RECURSIVE find_image_files(_)
find_image_files(l) ==
    IF l = <<>> THEN <<>>
    ELSE (IF Lower(Head(l)) \in IMAGE_EXT THEN <<Head(l)>> ELSE <<>>)
         \o find_image_files(Tail(l))

(***************************************************************************)
(* os.walk(root), line 99.  Top-down: the directory's entries are scanned  *)
(* BEFORE the directory is yielded; the entries that are directories are   *)
(* queued, the others are file names.                                      *)
(***************************************************************************)
\* the entries of directory d as scandir sees them now
ScanDir(d) ==
    {[is_dir |-> TRUE, id |-> c, name |-> "dir"] : c \in Children(d)}
    \cup (IF final[d] # ABSENT
          THEN {[is_dir |-> FALSE, id |-> d, name |-> "final"]} ELSE {})
    \cup (IF tmp_pdf[d] # ABSENT
          THEN {[is_dir |-> FALSE, id |-> d, name |-> "tmp_pdf"]} ELSE {})
    \cup {[is_dir |-> FALSE, id |-> d, name |-> "listing"]}

\* a walk that takes every entry for a directory
WalkDirs_AllEntries(d) == {e.id : e \in ScanDir(d)}

\* the entries os.walk descends into
WalkDirs(d) == {e.id : e \in {x \in ScanDir(d) : x.is_dir}}

TempFiles(r, d) == {t \in tempdir : t.run = r /\ t.folder = d}
RemoveTemp == {t \in tempdir : ~(t.run = run /\ t.folder = folder)}

Init ==
    /\ listing \in [Dirs -> Listings]
    /\ final \in [Dirs -> {ABSENT, OLD}]
    /\ tmp_pdf = [d \in Dirs |-> ABSENT]
    /\ tempdir = {}
    /\ overwrite \in BOOLEAN
    /\ include_root \in BOOLEAN
    /\ root_is_dir \in BOOLEAN
    /\ run = "first"
    /\ pc = "main"
    /\ stack = <<>>
    /\ folder = Root
    /\ images = <<>>
    /\ retval = "none"
    /\ ok = FALSE
    /\ processed = 0
    /\ faults = 0
    /\ final0 = final
    /\ calls = [d \in Dirs |-> 0]
    /\ outcome = [d \in Dirs |-> "none"]
    /\ ocr_exit = [d \in Dirs |-> "none"]
    /\ visited = <<>>
    /\ reported = [r \in Runs |-> NotReported]

(***************************************************************************)
(* main, lines 120-127                                                     *)
(***************************************************************************)
\* lines 123-125: the root is no directory: exit status 1, nothing touched
MainInvalidRoot ==
    /\ pc = "main"
    /\ ~root_is_dir
    /\ pc' = "exit1"
    /\ UNCHANGED <<fs, args, run, walker, images, retval, faults, history>>

\* lines 126-127 and 98: enter walk_and_process
Main ==
    /\ pc = "main"
    /\ root_is_dir
    /\ processed' = 0
    /\ stack' = <<Root>>
    /\ pc' = "walk"
    /\ UNCHANGED <<fs, args, run, folder, ok, images, retval, faults, history>>

(***************************************************************************)
(* walk_and_process, lines 97-110                                          *)
(***************************************************************************)
\* line 99: os.walk yields the next directory, having queued its subdirectories
WalkYield ==
    /\ pc = "walk"
    /\ stack # <<>>
    /\ folder' = Head(stack)
    /\ stack' = Sorted(WalkDirs(Head(stack))) \o Tail(stack)
    /\ pc' = "loop"
    /\ UNCHANGED <<fs, args, run, ok, processed, images, retval, faults, history>>

\* lines 102-103: the root is skipped unless --include-root
SkipRoot ==
    /\ pc = "loop"
    /\ ~include_root /\ folder = Root
    /\ pc' = "walk"
    /\ UNCHANGED <<fs, args, run, walker, images, retval, faults, history>>

\* line 105: call process_folder(folder, lang, overwrite)
CallProcessFolder ==
    /\ pc = "loop"
    /\ ~(~include_root /\ folder = Root)
    /\ calls' = [calls EXCEPT ![folder] = @ + 1]
    /\ visited' = Append(visited, folder)
    /\ outcome' = [outcome EXCEPT ![folder] = "running"]
    /\ retval' = "none"
    /\ pc' = "scan"
    /\ UNCHANGED <<fs, args, run, walker, images, faults,
                   final0, ocr_exit, reported>>

\* a walker that counts every folder process_folder returned from
Returned_CountsAll ==
    /\ pc = "returned"
    /\ ok' = (retval = "true")
    /\ processed' = processed + 1
    /\ pc' = "walk"
    /\ UNCHANGED <<fs, args, run, stack, folder, images, retval, faults, history>>

\* lines 105-107: process_folder returned; count the folder if it returned True
Returned ==
    /\ pc = "returned"
    /\ ok' = (retval = "true")
    /\ processed' = IF retval = "true" THEN processed + 1 ELSE processed
    /\ pc' = "walk"
    /\ UNCHANGED <<fs, args, run, stack, folder, images, retval, faults, history>>

\* a walker without the try/except: the exception ends walk_and_process
WalkerExcept_Propagates ==
    /\ pc = "raised"
    /\ pc' = "aborted"
    /\ UNCHANGED <<fs, args, run, walker, images, retval, faults, history>>

\* lines 108-109: process_folder raised; the error is logged, the loop goes on
WalkerExcept ==
    /\ pc = "raised"
    /\ pc' = "walk"
    /\ UNCHANGED <<fs, args, run, walker, images, retval, faults, history>>

\* line 110: os.walk is exhausted; the summary reports the count
Summary ==
    /\ pc = "walk"
    /\ stack = <<>>
    /\ reported' = [reported EXCEPT ![run] = processed]
    /\ pc' = "done"
    /\ UNCHANGED <<fs, args, run, walker, images, retval, faults,
                   final0, calls, outcome, ocr_exit, visited>>

(***************************************************************************)
(* process_folder, lines 55-95                                             *)
(***************************************************************************)
\* line 56, find_image_files raises (the folder cannot be listed): the
\* exception leaves process_folder before anything was written
ScanRaises ==
    /\ pc = "scan"
    /\ faults < MaxFaults
    /\ faults' = faults + 1
    /\ outcome' = [outcome EXCEPT ![folder] = "raised"]
    /\ retval' = "raise"
    /\ pc' = "raised"
    /\ UNCHANGED <<fs, args, run, walker, images,
                   final0, calls, ocr_exit, visited, reported>>

\* lines 56-59: list the images; none: return False
Scan ==
    /\ pc = "scan"
    /\ images' = find_image_files(listing[folder])
    /\ IF images' = <<>>
       THEN /\ outcome' = [outcome EXCEPT ![folder] = "skipped-empty"]
            /\ retval' = "false"
            /\ pc' = "returned"
       ELSE /\ pc' = "exists"
            /\ UNCHANGED <<outcome, retval>>
    /\ UNCHANGED <<fs, args, run, walker, faults,
                   final0, calls, ocr_exit, visited, reported>>

\* an existence check with the flag inverted
ExistenceCheck_FlagInverted ==
    /\ pc = "exists"
    /\ IF final[folder] # ABSENT /\ overwrite
       THEN /\ outcome' = [outcome EXCEPT ![folder] = "skipped-exists"]
            /\ retval' = "false"
            /\ pc' = "returned"
       ELSE /\ pc' = "assemble"
            /\ UNCHANGED <<outcome, retval>>
    /\ UNCHANGED <<fs, args, run, walker, images, faults,
                   final0, calls, ocr_exit, visited, reported>>

\* an existence check that looks at tmp_pdf instead of out_pdf_path
ExistenceCheck_WrongPath ==
    /\ pc = "exists"
    /\ IF tmp_pdf[folder] # ABSENT /\ ~overwrite
       THEN /\ outcome' = [outcome EXCEPT ![folder] = "skipped-exists"]
            /\ retval' = "false"
            /\ pc' = "returned"
       ELSE /\ pc' = "assemble"
            /\ UNCHANGED <<outcome, retval>>
    /\ UNCHANGED <<fs, args, run, walker, images, faults,
                   final0, calls, ocr_exit, visited, reported>>

\* lines 65-67: the Final PDF exists and --overwrite is off: return False
ExistenceCheck ==
    /\ pc = "exists"
    /\ IF final[folder] # ABSENT /\ ~overwrite
       THEN /\ outcome' = [outcome EXCEPT ![folder] = "skipped-exists"]
            /\ retval' = "false"
            /\ pc' = "returned"
       ELSE /\ pc' = "assemble"
            /\ UNCHANGED <<outcome, retval>>
    /\ UNCHANGED <<fs, args, run, walker, images, faults,
                   final0, calls, ocr_exit, visited, reported>>

\* lines 70 and 20-29: images_to_pdf writes the Intermediate PDF
Assemble ==
    /\ pc = "assemble"
    /\ tmp_pdf' = [tmp_pdf EXCEPT ![folder] = NOOCR]
    /\ pc' = "mktemp"
    /\ UNCHANGED <<listing, final, tempdir, args, run, walker, images, retval,
                   faults, history>>

\* lines 70 and 27-28: images_to_pdf raises, either in open() (no file is
\* created) or in img2pdf.convert() (open() has created an empty file)
AssembleRaises ==
    /\ pc = "assemble"
    /\ faults < MaxFaults
    /\ faults' = faults + 1
    /\ \E partial \in BOOLEAN :
         tmp_pdf' = [tmp_pdf EXCEPT ![folder] = IF partial THEN INVALID ELSE @]
    /\ pc' = "assemble_except"
    /\ UNCHANGED <<listing, final, tempdir, args, run, walker, images, retval,
                   history>>

\* an assembly handler that forgets the partial Intermediate PDF
AssembleExcept_KeepsPartial ==
    /\ pc = "assemble_except"
    /\ outcome' = [outcome EXCEPT ![folder] = "failed-assembly"]
    /\ retval' = "false"
    /\ pc' = "returned"
    /\ UNCHANGED <<fs, args, run, walker, images, faults,
                   final0, calls, ocr_exit, visited, reported>>

\* an assembly handler that also deletes out_pdf_path, as the OCR handler does
AssembleExcept_UnlinksFinal ==
    /\ pc = "assemble_except"
    /\ tmp_pdf' = [tmp_pdf EXCEPT ![folder] = ABSENT]
    /\ final' = [final EXCEPT ![folder] = ABSENT]
    /\ outcome' = [outcome EXCEPT ![folder] = "failed-assembly"]
    /\ retval' = "false"
    /\ pc' = "returned"
    /\ UNCHANGED <<listing, tempdir, args, run, walker, images, faults,
                   final0, calls, ocr_exit, visited, reported>>

\* lines 71-75: remove a partial Intermediate PDF, return False
AssembleExcept ==
    /\ pc = "assemble_except"
    /\ tmp_pdf' = [tmp_pdf EXCEPT ![folder] = ABSENT]
    /\ outcome' = [outcome EXCEPT ![folder] = "failed-assembly"]
    /\ retval' = "false"
    /\ pc' = "returned"
    /\ UNCHANGED <<listing, final, tempdir, args, run, walker, images, faults,
                   final0, calls, ocr_exit, visited, reported>>

\* lines 79-80: NamedTemporaryFile(delete=False) creates an empty file in
\* the system temporary directory and closes it
MkTemp ==
    /\ pc = "mktemp"
    /\ tempdir' = tempdir \cup {[run |-> run, folder |-> folder, content |-> INVALID]}
    /\ pc' = "ocr"
    /\ UNCHANGED <<listing, final, tmp_pdf, args, run, walker, images, retval,
                   faults, history>>

\* line 79: NamedTemporaryFile raises (the temporary directory cannot be
\* written): no file is created, the handler of line 87 runs
MkTempRaises ==
    /\ pc = "mktemp"
    /\ faults < MaxFaults
    /\ faults' = faults + 1
    /\ pc' = "ocr_except"
    /\ UNCHANGED <<fs, args, run, walker, images, retval, history>>

\* lines 81 and 49-50: ocrmypdf exits zero, its output file is complete
RunOcr ==
    /\ pc = "ocr"
    /\ tempdir' = RemoveTemp \cup
         {[run |-> run, folder |-> folder, content |-> OcrOutput(run)]}
    /\ ocr_exit' = [ocr_exit EXCEPT ![folder] = "zero"]
    /\ pc' = "promote"
    /\ UNCHANGED <<listing, final, tmp_pdf, args, run, walker, images, retval,
                   faults, final0, calls, outcome, visited, reported>>

\* subprocess.run without check=True: a non-zero exit raises nothing
RunOcrFails_Unchecked ==
    /\ pc = "ocr"
    /\ faults < MaxFaults
    /\ faults' = faults + 1
    /\ ocr_exit' = [ocr_exit EXCEPT ![folder] = "nonzero"]
    /\ pc' = "promote"
    /\ UNCHANGED <<fs, args, run, walker, images, retval,
                   final0, calls, outcome, visited, reported>>

\* lines 81 and 51-53: ocrmypdf exits non-zero, CalledProcessError is raised;
\* whatever it wrote to its output file is no valid PDF
RunOcrFails ==
    /\ pc = "ocr"
    /\ faults < MaxFaults
    /\ faults' = faults + 1
    /\ ocr_exit' = [ocr_exit EXCEPT ![folder] = "nonzero"]
    /\ pc' = "ocr_except"
    /\ UNCHANGED <<fs, args, run, walker, images, retval,
                   final0, calls, outcome, visited, reported>>

\* lines 83-84: an existing Final PDF is deleted first
PromoteUnlink ==
    /\ pc = "promote"
    /\ final' = [final EXCEPT ![folder] = ABSENT]
    /\ pc' = "replace"
    /\ UNCHANGED <<listing, tmp_pdf, tempdir, args, run, walker, images, retval,
                   faults, history>>

\* lines 85-86: the temporary file is renamed to the Final PDF path
PromoteReplace ==
    /\ pc = "replace"
    /\ \E t \in TempFiles(run, folder) :
         final' = [final EXCEPT ![folder] = t.content]
    /\ tempdir' = RemoveTemp
    /\ outcome' = [outcome EXCEPT ![folder] = "succeeded"]
    /\ retval' = "true"
    /\ pc' = "finally"
    /\ UNCHANGED <<listing, tmp_pdf, args, run, walker, images, faults,
                   final0, calls, ocr_exit, visited, reported>>

\* line 85: Path.replace raises (os.replace cannot rename across file
\* systems, and the temporary directory may be on another one): the
\* temporary file stays where it is, the handler of line 87 runs
PromoteReplaceRaises ==
    /\ pc = "replace"
    /\ faults < MaxFaults
    /\ faults' = faults + 1
    /\ pc' = "ocr_except"
    /\ UNCHANGED <<fs, args, run, walker, images, retval, history>>

\* an OCR handler that leaves the Final PDF path alone
OcrExcept_KeepsFinal ==
    /\ pc = "ocr_except"
    /\ outcome' = [outcome EXCEPT ![folder] = "failed-ocr"]
    /\ retval' = "false"
    /\ pc' = "finally"
    /\ UNCHANGED <<fs, args, run, walker, images, faults,
                   final0, calls, ocr_exit, visited, reported>>

\* lines 87-92: the OCR step failed: delete the Final PDF if there is one,
\* return False
OcrExcept ==
    /\ pc = "ocr_except"
    /\ final' = [final EXCEPT ![folder] = ABSENT]
    /\ outcome' = [outcome EXCEPT ![folder] = "failed-ocr"]
    /\ retval' = "false"
    /\ pc' = "finally"
    /\ UNCHANGED <<listing, tmp_pdf, tempdir, args, run, walker, images, faults,
                   final0, calls, ocr_exit, visited, reported>>

\* lines 93-95: the finally clause removes the Intermediate PDF, then the
\* pending return takes place
Finally ==
    /\ pc = "finally"
    /\ tmp_pdf' = [tmp_pdf EXCEPT ![folder] = ABSENT]
    /\ pc' = "returned"
    /\ UNCHANGED <<listing, final, tempdir, args, run, walker, images, retval,
                   faults, history>>

(***************************************************************************)
(* The program is run a second time on the same tree with the same         *)
(* arguments.  The history of the first invocation is dropped, the files   *)
(* it left are the starting point of the second.                           *)
(***************************************************************************)
RunAgain ==
    /\ pc = "done"
    /\ run = "first"
    /\ run' = "second"
    /\ pc' = "main"
    /\ final0' = final
    /\ calls' = [d \in Dirs |-> 0]
    /\ outcome' = [d \in Dirs |-> "none"]
    /\ ocr_exit' = [d \in Dirs |-> "none"]
    /\ visited' = <<>>
    /\ UNCHANGED <<fs, args, walker, images, retval, faults, reported>>

Next ==
    \/ MainInvalidRoot
    \/ Main
    \/ WalkYield
    \/ SkipRoot
    \/ CallProcessFolder
    \/ Returned
    \/ WalkerExcept
    \/ Summary
    \/ ScanRaises
    \/ Scan
    \/ ExistenceCheck
    \/ Assemble
    \/ AssembleRaises
    \/ AssembleExcept
    \/ MkTemp
    \/ RunOcr
    \/ RunOcrFails
    \/ MkTempRaises
    \/ PromoteReplaceRaises
    \/ PromoteUnlink
    \/ PromoteReplace
    \/ OcrExcept
    \/ Finally

\* one invocation of the program
Spec == Init /\ [][Next]_vars

\* the program is started without --overwrite
InitNoOverwrite == Init /\ ~overwrite

\* two invocations in succession, both without --overwrite
SpecTwice == InitNoOverwrite /\ [][Next \/ RunAgain]_vars

(***************************************************************************)
(* Vocabulary of the properties                                            *)
(***************************************************************************)
\* the positions inside process_folder
InCall == {"scan", "exists", "assemble", "assemble_except", "mktemp", "ocr",
           "promote", "replace", "ocr_except", "finally"}
\* the positions from the assembler on
FromAssemble == InCall \ {"scan", "exists"}

\* process_folder was called on d in this invocation and control has left it
HasReturned(d) == calls[d] > 0 /\ ~(folder = d /\ pc \in InCall)

\* the call on d returned normally and the walker is about to read its value
JustReturned(d) == folder = d /\ pc = "returned"

HasImages(d) == find_image_files(listing[d]) # <<>>

\* the directories the walker has to call process_folder on
ToVisit == IF include_root THEN Dirs ELSE Dirs \ {Root}

Failed == {"failed-assembly", "failed-ocr", "raised"}

TypeOK ==
    /\ final \in [Dirs -> {ABSENT, OLD, INVALID, "ocr_first", "ocr_second"}]
    /\ tmp_pdf \in [Dirs -> {ABSENT, INVALID, NOOCR}]
    /\ retval \in {"none", "true", "false", "raise"}
    /\ processed \in 0..NumDirs
    /\ faults \in 0..MaxFaults
    /\ pc \in InCall \cup {"main", "exit1", "walk", "loop", "returned",
                           "raised", "done"}

(***************************************************************************)
(* C1  After an OCR failure (assembly succeeded, the OCR process exited    *)
(* non-zero) process_folder returns False and no Final PDF is left in the  *)
(* folder, also when one existed before the call and overwrite is set.     *)
(***************************************************************************)
C1_NoFinalAfterOcrFailure ==
    \A d \in Dirs :
        (ocr_exit[d] = "nonzero" /\ HasReturned(d)) =>
            /\ final[d] = ABSENT
            /\ pc # "raised" \/ folder # d
            /\ JustReturned(d) => retval = "false"

C1_Witness ==
    \E d \in Dirs :
        /\ ocr_exit[d] = "nonzero" /\ JustReturned(d)
        /\ final0[d] = OLD /\ overwrite

(***************************************************************************)
(* C2  The OCR Temp Output made by a call of process_folder is gone        *)
(* (deleted or renamed away) once the call has returned, on every exit     *)
(* path.                                                                   *)
(***************************************************************************)
C2_TempGoneOnReturn ==
    \A d \in Dirs : HasReturned(d) => TempFiles(run, d) = {}

(***************************************************************************)
(* C3  The Intermediate PDF exists only while process_folder is at work on *)
(* its folder: whenever process_folder has returned, and so when the walk  *)
(* is complete, no folder holds one.                                       *)
(***************************************************************************)
C3_IntermediateRemoved ==
    \A d \in Dirs : tmp_pdf[d] # ABSENT => (folder = d /\ pc \in FromAssemble)

C3_Witness ==
    /\ pc = "done"
    /\ \E d \in Dirs : outcome[d] = "failed-assembly"

(***************************************************************************)
(* C4  A folder with an image and an existing Final PDF, overwrite off:    *)
(* process_folder returns False, the Final PDF keeps its contents, the     *)
(* assembler and the OCR invoker are never run, and no Intermediate PDF and*)
(* no temporary file is created.                                           *)
(***************************************************************************)
C4_SkipExistingUntouched ==
    \A d \in Dirs :
        (~overwrite /\ final0[d] # ABSENT /\ calls[d] > 0 /\ HasImages(d)) =>
            /\ final[d] = final0[d]
            /\ tmp_pdf[d] = ABSENT
            /\ TempFiles(run, d) = {}
            /\ ocr_exit[d] = "none"
            /\ folder = d => pc \notin FromAssemble
            /\ JustReturned(d) => retval = "false"

C4_Witness ==
    \E d \in Dirs :
        /\ JustReturned(d) /\ HasImages(d) /\ final0[d] = OLD /\ ~overwrite
        /\ outcome[d] = "skipped-exists"

(***************************************************************************)
(* C5  In every reachable state the Final PDF of a folder is absent, or    *)
(* the Final PDF that was there before the call, or the complete output of *)
(* an OCR process that exited zero; it is never an invalid file.           *)
(***************************************************************************)
C5_FinalNeverPartial ==
    \A d \in Dirs :
        \/ final[d] = ABSENT
        \/ final[d] = final0[d]
        \/ final[d] = OcrOutput(run) /\ ocr_exit[d] = "zero"

C5_Witness ==
    \E d \in Dirs :
        /\ final0[d] = OLD /\ overwrite
        /\ final[d] = OcrOutput(run) /\ HasReturned(d)

(***************************************************************************)
(* C6  The count of the final summary is the number of folders whose call  *)
(* ended in the succeeded state, which are the folders that hold a fresh   *)
(* Final PDF.  On the tree A = 2 (images), B = 3 (no image), C = 4 (images *)
(* and an existing C.pdf), root not included, nothing failing, the count   *)
(* is 1 without overwrite and 2 with it.                                   *)
(***************************************************************************)
Succeeded == {d \in Dirs : outcome[d] = "succeeded"}
Fresh == {d \in Dirs : final[d] = OcrOutput(run)}

ScenarioABC ==
    /\ ~include_root
    /\ HasImages(2) /\ final0[2] = ABSENT
    /\ ~HasImages(3)
    /\ HasImages(4) /\ final0[4] = OLD
    /\ \A d \in Dirs : d > 4 => ~HasImages(d)
    /\ faults = 0

C6_CountIsSucceeded ==
    pc = "done" =>
        /\ reported[run] = Cardinality(Succeeded)
        /\ Succeeded = Fresh
        /\ ScenarioABC => reported[run] = (IF overwrite THEN 2 ELSE 1)

C6_Witness ==
    /\ pc = "done" /\ ScenarioABC /\ overwrite
    /\ reported[run] = 2
    /\ final[2] = OcrOutput(run) /\ final[4] = OcrOutput(run)

(***************************************************************************)
(* C7  A failing folder does not stop the walk: when process_folder has    *)
(* raised, the walker's next step is back in its loop; at the summary      *)
(* process_folder has been called on every directory to visit; and a       *)
(* folder whose own call did not fail has the Final PDF it gets when       *)
(* nothing fails at all.                                                   *)
(***************************************************************************)
\* the Final PDF of d after a call in which nothing fails
Unfailed(d) ==
    IF HasImages(d) /\ (final0[d] = ABSENT \/ overwrite)
    THEN OcrOutput(run)
    ELSE final0[d]

C7_FailureDoesNotAbort ==
    /\ pc = "raised" => ENABLED (WalkerExcept /\ pc' = "walk")
    /\ pc = "done" => \A d \in ToVisit : calls[d] >= 1
    /\ \A d \in Dirs :
         (HasReturned(d) /\ outcome[d] \notin Failed) => final[d] = Unfailed(d)

C7_Witness ==
    /\ pc = "done"
    /\ \E i, j \in 1..Len(visited) :
         /\ i < j
         /\ outcome[visited[i]] = "raised"
         /\ outcome[visited[j]] = "succeeded"

(***************************************************************************)
(* C8  process_folder is called exactly once on every directory below the  *)
(* root, and on the root exactly when include_root is set, whatever files  *)
(* the calls create and remove in the folders meanwhile.                   *)
(***************************************************************************)
C8_EachDirectoryOnce ==
    /\ \A d \in Dirs : calls[d] <= 1
    /\ ~include_root => calls[Root] = 0
    /\ pc = "done" => \A d \in ToVisit : calls[d] = 1

C8_Witness ==
    /\ pc = "done"
    /\ include_root
    /\ \E d \in Dirs : final0[d] = ABSENT /\ final[d] = OcrOutput(run)
    /\ \E d \in Dirs : final0[d] = OLD /\ final[d] = ABSENT

(***************************************************************************)
(* C9  Idempotence.  The program is run a second time with overwrite off   *)
(* on a tree the first run has processed (every folder to visit that has   *)
(* an image holds its Final PDF): the second run changes no Final PDF and  *)
(* reports a count of 0.  A first run in which nothing failed leaves the   *)
(* tree processed in that sense.                                           *)
(***************************************************************************)
AlreadyProcessed == \A d \in ToVisit : HasImages(d) => final0[d] # ABSENT

C9_SecondRunChangesNothing ==
    /\ (run = "second" /\ ~overwrite /\ faults = 0) => AlreadyProcessed
    /\ (run = "second" /\ ~overwrite /\ AlreadyProcessed) =>
           /\ final = final0
           /\ processed = 0 \/ pc = "main"
           /\ pc = "done" => reported["second"] = 0

C9_Witness ==
    /\ run = "second" /\ pc = "done"
    /\ ~overwrite /\ AlreadyProcessed
    /\ \E d \in Dirs : final[d] = "ocr_first"

(***************************************************************************)
(* C10  When the assembler fails, a Final PDF that was there before the    *)
(* call keeps its contents and process_folder returns False; up to and     *)
(* including the assembly step the Final PDF is never touched.             *)
(***************************************************************************)
C10_AssemblyFailureKeepsFinal ==
    \A d \in Dirs :
        /\ (folder = d /\ pc \in {"scan", "exists", "assemble", "assemble_except"})
               => final[d] = final0[d]
        /\ outcome[d] = "failed-assembly" =>
               /\ final[d] = final0[d]
               /\ JustReturned(d) => retval = "false"

C10_Witness ==
    \E d \in Dirs :
        /\ outcome[d] = "failed-assembly" /\ JustReturned(d)
        /\ final0[d] = OLD /\ overwrite
        /\ final[d] = OLD

====
